---- MODULE Spec2Model ----
(***************************************************************************)
(* Six-seat, two-team trick game engine (game_engine.py) with its bot      *)
(* agent and the room operations the Flask layer (app.py) invokes.         *)
(*                                                                         *)
(* Cards are identified by the number n of their id "c<n>"; the deck is    *)
(* built in a fixed order before the shuffle, so suit, rank, value and     *)
(* wildcard flag are functions of the id.  Hands are sequences of card ids *)
(* in the display order the engine keeps (descending value, stable).       *)
(* Scores of the agent are floats in the source; every weight is a         *)
(* multiple of 1/400, so scores are modelled exactly as integers: the      *)
(* float score times 400.                                                  *)
(***************************************************************************)
EXTENDS Integers, Sequences, FiniteSets, TLC

\* ------------------------------------------------------------------ bounds
\* Shuffles explored by start_game: deals 0..MaxDeal of the family Shuffle.
MaxDeal == 1
\* Opening of a round: while fewer than this many plays have been made,
\* clients send any request; later in the round the only requests are the
\* agent's choice for the turn holder and a restart.
MaxOpening == 2
\* Emotes kept in the buffer before clients stop sending more; clients send
\* them in the lobby, before the first round.
MaxEmotes == 1

\* Longest card list given to analyze.
MaxCards == 5

\* --------------------------------------------------------------- constants
NumSeats == 6
HandSize == 9
DeckSize == 54
HistoryLimit == 30
EmoteLimit == 50

Seats == 0 .. (NumSeats - 1)
CardIds == 0 .. (DeckSize - 1)

\* RANKS: index = rank value. 0..8 are "4".."Q" etc; 10 = A, 11 = "2",
\* 12 = "3", 13 = SJ, 14 = BJ.
RANKS == <<"4", "5", "6", "7", "8", "9", "10", "J", "Q", "K", "A", "2", "3", "SJ", "BJ">>
SUITS == <<"H", "D", "C", "S">>
TEAM_A == {0, 2, 4}
TRUMP_RANKS == {"BJ", "SJ", "3", "2", "A"}

team_for_seat(seat_id) == IF seat_id \in TEAM_A THEN "A" ELSE "B"

\* RANK_VALUES[rank] = index of rank in RANKS
RANK_VALUES(r) == (CHOOSE i \in 1 .. Len(RANKS) : RANKS[i] = r) - 1

\* _create_deck before the shuffle: card c<n> for n = 13*suit + rank index,
\* then the two jokers c52 (SJ) and c53 (BJ) with an empty suit.
create_deck ==
  [n \in CardIds |->
     IF n < 52
       THEN LET r == RANKS[(n % 13) + 1]
            IN [id |-> n, suit |-> SUITS[(n \div 13) + 1], rank |-> r,
                value |-> RANK_VALUES(r), is_wild |-> r \in {"2", "3"}]
       ELSE IF n = 52
         THEN [id |-> n, suit |-> "", rank |-> "SJ", value |-> RANK_VALUES("SJ"), is_wild |-> TRUE]
         ELSE [id |-> n, suit |-> "", rank |-> "BJ", value |-> RANK_VALUES("BJ"), is_wild |-> TRUE]]

Value(c) == create_deck[c].value
IsWild(c) == create_deck[c].is_wild
RankOf(c) == create_deck[c].rank
SuitOf(c) == create_deck[c].suit

Range(s) == {s[i] : i \in 1 .. Len(s)}
SetMin(S) == CHOOSE x \in S : \A y \in S : x <= y
SetMax(S) == CHOOSE x \in S : \A y \in S : x >= y
RECURSIVE SumSeq(_)
SumSeq(s) == IF Len(s) = 0 THEN 0 ELSE Head(s) + SumSeq(Tail(s))

\* ---------------------------------------------------------- hand analyzer
ComboName(n) ==
  CASE n = 2 -> "pair" [] n = 3 -> "triple" [] n = 4 -> "quad" [] OTHER -> "invalid"

\* (variant: an all-wildcard combo takes the highest value)
analyze_wild_max(cards) ==
  IF Len(cards) = 0 THEN [type |-> "invalid", rank |-> -1]
  ELSE IF Len(cards) = 1 THEN [type |-> "single", rank |-> Value(cards[1])]
  ELSE LET wild == SelectSeq(cards, LAMBDA c : IsWild(c))
           normal == SelectSeq(cards, LAMBDA c : ~IsWild(c))
       IN IF Len(normal) > 0
            THEN LET v == Value(normal[1])
                 IN IF \E i \in 1 .. Len(normal) : Value(normal[i]) # v
                      THEN [type |-> "invalid", rank |-> -1]
                      ELSE [type |-> ComboName(Len(cards)), rank |-> v]
            ELSE [type |-> ComboName(Len(cards)),
                  rank |-> SetMax({Value(wild[i]) : i \in 1 .. Len(wild)})]

\* _analyze(cards): cards is a sequence of card ids
analyze(cards) ==
  IF Len(cards) = 0 THEN [type |-> "invalid", rank |-> -1]
  ELSE IF Len(cards) = 1 THEN [type |-> "single", rank |-> Value(cards[1])]
  ELSE LET wild == SelectSeq(cards, LAMBDA c : IsWild(c))
           normal == SelectSeq(cards, LAMBDA c : ~IsWild(c))
       IN IF Len(normal) > 0
            THEN LET v == Value(normal[1])
                 IN IF \E i \in 1 .. Len(normal) : Value(normal[i]) # v
                      THEN [type |-> "invalid", rank |-> -1]
                      ELSE [type |-> ComboName(Len(cards)), rank |-> v]
            ELSE [type |-> ComboName(Len(cards)),
                  rank |-> SetMin({Value(wild[i]) : i \in 1 .. Len(wild)})]

NoHand == [player_id |-> -1, cards |-> <<>>, hand_type |-> "none", main_rank |-> -1]

\* (variant: an equal rank is enough)
can_beat_equal(cards, last) ==
  LET a == analyze(cards)
  IN IF a.type = "invalid" THEN FALSE
     ELSE IF last = NoHand THEN TRUE
     ELSE a.type = last.hand_type /\ a.rank >= last.main_rank

\* _can_beat(cards, last)
can_beat(cards, last) ==
  LET a == analyze(cards)
  IN IF a.type = "invalid" THEN FALSE
     ELSE IF last = NoHand THEN TRUE
     ELSE a.type = last.hand_type /\ a.rank > last.main_rank

\* itertools.combinations(s, k): the k-element subsequences of s in
\* lexicographic order of positions.
RECURSIVE combinations(_, _)
combinations(s, k) ==
  IF k = 0 THEN << <<>> >>
  ELSE IF Len(s) < k THEN <<>>
  ELSE LET with == combinations(Tail(s), k - 1)
       IN [i \in 1 .. Len(with) |-> <<Head(s)>> \o with[i]] \o combinations(Tail(s), k)

RECURSIVE Flatten(_)
Flatten(ss) == IF Len(ss) = 0 THEN <<>> ELSE Head(ss) \o Flatten(Tail(ss))

\* The "seen" filter of _generate_legal_moves: a move is kept unless an
\* earlier move of the list has the same key (set of card ids).
Dedup(moves) ==
  LET indexed == [i \in 1 .. Len(moves) |-> <<i, moves[i]>>]
      kept == SelectSeq(indexed,
                LAMBDA p : \A j \in 1 .. (p[1] - 1) : Range(moves[j]) # Range(p[2]))
  IN [i \in 1 .. Len(kept) |-> kept[i][2]]

\* (variant: the combinations are not filtered by _can_beat)
generate_moves_unfiltered(hand, last) ==
  IF Len(hand) = 0 THEN <<>>
  ELSE LET sizes == IF last # NoHand THEN <<Len(last.cards)>> ELSE <<1, 2, 3, 4>>
           perSize == [j \in 1 .. Len(sizes) |->
                         IF sizes[j] > Len(hand) THEN <<>>
                         ELSE combinations(hand, sizes[j])]
       IN Dedup(Flatten(perSize))

\* (variant: combinations of four cards are not enumerated)
generate_moves_up_to_triples(hand, last) ==
  IF Len(hand) = 0 THEN <<>>
  ELSE LET sizes == IF last # NoHand THEN <<Len(last.cards)>> ELSE <<1, 2, 3>>
           perSize == [j \in 1 .. Len(sizes) |->
                         IF sizes[j] > Len(hand) THEN <<>>
                         ELSE SelectSeq(combinations(hand, sizes[j]),
                                        LAMBDA cards : can_beat(cards, last))]
       IN Dedup(Flatten(perSize))

\* _generate_legal_moves(hand, last): list of moves in enumeration order
generate_legal_moves(hand, last) ==
  IF Len(hand) = 0 THEN <<>>
  ELSE LET sizes == IF last # NoHand THEN <<Len(last.cards)>> ELSE <<1, 2, 3, 4>>
           perSize == [j \in 1 .. Len(sizes) |->
                         IF sizes[j] > Len(hand) THEN <<>>
                         ELSE SelectSeq(combinations(hand, sizes[j]),
                                        LAMBDA cards : can_beat(cards, last))]
       IN Dedup(Flatten(perSize))


\* ------------------------------------------------------- move evaluator
\* Cards of the hand that are not in the move, in hand order.
Remaining(move, hand) == SelectSeq(hand, LAMBDA c : c \notin Range(move))

\* _remaining_hand_cost(move, hand), scaled by 20:
\* sum (value+1)/4 + 2 per wildcard + 0.8 per distinct value; -4.0 if empty.
remaining_hand_cost(move, hand) ==
  LET remaining == Remaining(move, hand)
  IN IF Len(remaining) = 0 THEN -80
     ELSE 5 * SumSeq([i \in 1 .. Len(remaining) |-> Value(remaining[i]) + 1])
          + 40 * Len(SelectSeq(remaining, LAMBDA c : IsWild(c)))
          + 16 * Cardinality({Value(remaining[i]) : i \in 1 .. Len(remaining)})

\* _is_high_impact_card(move)
is_high_impact_card(move) ==
  \/ analyze(move).type = "quad"
  \/ \E i \in 1 .. Len(move) : RankOf(move[i]) \in {"BJ", "SJ", "3", "2"}

\* _is_trump_card(card)
is_trump_card(c) == RankOf(c) \in TRUMP_RANKS

\* _move_is_trump(move)
move_is_trump(move) == \A i \in 1 .. Len(move) : is_trump_card(move[i])

AnyTrump(move) == \E i \in 1 .. Len(move) : is_trump_card(move[i])

\* Number of trump cards of the hand; _trump_ratio(hand) is this count
\* divided by Len(hand) (0.0 for an empty hand) and is only ever compared
\* with 0.45 and 0.6.
TrumpCount(hand) == Len(SelectSeq(hand, LAMBDA c : is_trump_card(c)))
\* _trump_ratio(hand) < 0.45
TrumpRatioLow(hand) == IF Len(hand) = 0 THEN TRUE ELSE 20 * TrumpCount(hand) < 9 * Len(hand)
\* _trump_ratio(hand) >= 0.6
TrumpRatioHigh(hand) == IF Len(hand) = 0 THEN FALSE ELSE 5 * TrumpCount(hand) >= 3 * Len(hand)

\* groups.setdefault(c.value, []).append(c): the cards of a value, in order
Group(cards, v) == SelectSeq(cards, LAMBDA c : Value(c) = v)
GroupValues(cards) == {Value(cards[i]) : i \in 1 .. Len(cards)}

\* Number of value groups of `cards` whose first req cards form a combo of
\* the type of `move` with a rank above it (shared by _control_followups and
\* _teammate_can_cover).
CoveringGroups(cards, move) ==
  LET a == analyze(move)
      req == Len(move)
  IN {v \in GroupValues(cards) :
        /\ v > a.rank
        /\ Len(Group(cards, v)) >= req
        /\ analyze(SubSeq(Group(cards, v), 1, req)).type = a.type}

\* _control_followups(move, hand)
control_followups(move, hand) ==
  LET remaining == Remaining(move, hand)
  IN IF Len(remaining) = 0 THEN 0 ELSE Cardinality(CoveringGroups(remaining, move))

\* _teammate_can_cover(room, player, move)
teammate_can_cover(room, seat, move) ==
  \E m \in Seats :
     /\ ~room.players[m].finished
     /\ room.players[m].id # room.players[seat].id
     /\ room.players[m].team = room.players[seat].team
     /\ CoveringGroups(room.players[m].hand, move) # {}

\* _card_strength(move), scaled by 5: main + 0.4 * len
card_strength(move) == 5 * analyze(move).rank + 2 * Len(move)

\* _teammate_cards_left(room, seat_id)
teammate_cards_left(room, seat_id) ==
  LET mates == {m \in Seats : /\ room.players[m].id # seat_id
                              /\ room.players[m].team = team_for_seat(seat_id)
                              /\ ~room.players[m].finished}
  IN IF mates = {} THEN 0 ELSE SetMin({Len(room.players[m].hand) : m \in mates})

\* _opponent_cards_left(room, seat_id), as the set of the listed hand sizes
\* (the list is only tested for emptiness and for its minimum)
opponent_cards_left(room, seat_id) ==
  {Len(room.players[m].hand) :
     m \in {o \in Seats : room.players[o].team # team_for_seat(seat_id) /\ ~room.players[o].finished}}

\* _evaluate_lead(move, hand, turn_history), scaled by 400
evaluate_lead(move, hand, turn_history) ==
  LET t == analyze(move).type
      record_bonus == (IF t \in {"triple", "quad"} THEN 320 ELSE 0)
                      + (IF \E s \in DOMAIN turn_history : turn_history[s].passes >= 2 THEN 200 ELSE 0)
  IN 128 * card_strength(move)
     - 9 * remaining_hand_cost(move, hand)
     + (IF is_high_impact_card(move) THEN 960 ELSE 0)
     - (IF AnyTrump(move) THEN (IF TrumpRatioLow(hand) THEN 1200 ELSE 320) ELSE 0)
     + (IF TrumpRatioHigh(hand) /\ move_is_trump(move) THEN 800 ELSE 0)
     + 540 * control_followups(move, hand)
     + record_bonus

\* _evaluate_response(move, hand, last, opponent_cards_left, turn_history),
\* scaled by 400
evaluate_response(move, hand, last, opp_left, turn_history) ==
  LET followups == control_followups(move, hand)
  IN (IF last # NoHand /\ can_beat(move, last) THEN 2000 ELSE 0)
     - 9 * remaining_hand_cost(move, hand)
     - 16 * card_strength(move)
     + 480 * followups
     - (IF followups = 0 THEN 320 ELSE 0)
     - (IF AnyTrump(move) THEN (IF TrumpRatioLow(hand) THEN 800 ELSE 240) ELSE 0)
     + (IF opp_left # {} /\ SetMin(opp_left) <= 2
          THEN 880 + (IF Len(move) > 1 THEN 240 ELSE 0) ELSE 0)
     + (IF last # NoHand /\ last.player_id \in DOMAIN turn_history
           /\ turn_history[last.player_id].plays >= 3 THEN 240 ELSE 0)

\* The early return of _select_best_move: the trick is held by a teammate
\* with an all-trump combo and the teammate is nearly out or no opponent is
\* critically low.
Defers(room, seat) ==
  /\ room.last_hand # NoHand
  /\ LET last_player == room.players[room.last_hand.player_id]
         player == room.players[seat]
         opp_left == opponent_cards_left(room, player.id)
     IN /\ last_player.team = player.team
        /\ last_player.id # player.id
        /\ move_is_trump(room.last_hand.cards)
        /\ \/ Len(last_player.hand) <= 2
           \/ (opp_left # {} /\ SetMin(opp_left) > 1)

\* Score of one candidate in the loop of _select_best_move
MoveScore(room, seat, move) ==
  LET player == room.players[seat]
      mates_left == teammate_cards_left(room, player.id)
      base == IF room.last_hand = NoHand
                THEN evaluate_lead(move, player.hand, room.player_turn_history)
                ELSE evaluate_response(move, player.hand, room.last_hand,
                                       opponent_cards_left(room, player.id),
                                       room.player_turn_history)
                     + (IF teammate_can_cover(room, seat, move) THEN 720 ELSE 0)
      support == IF mates_left # 0 /\ mates_left <= 2
                   THEN 720 + (IF Len(move) > 1 THEN 160 ELSE 0)
                        - (IF /\ room.last_hand # NoHand
                              /\ room.last_hand.player_id # player.id
                              /\ room.players[room.last_hand.player_id].team = player.team
                              /\ AnyTrump(move)
                            THEN 800 ELSE 0)
                   ELSE 0
  IN base + support

\* The values of a move's cards in order: two moves of one hand with the
\* same profile go through the same float computation.
Profile(move) == [i \in 1 .. Len(move) |-> Value(move[i])]

\* _select_best_move(room, player): the set of results the comparison
\* `score > best_score` can produce; <<>> stands for None.  The first
\* candidate wins among candidates of equal float score.  Exact scores that
\* differ are at least 1/400 apart, so floats order them as the exact
\* values do; candidates with the same profile have the same float score;
\* candidates with equal exact score and different profiles may compare
\* either way after rounding, so each of them is a possible result.
\* (variant: the agent always takes the best scored candidate)
select_best_move_no_deference(room, seat) ==
  LET player == room.players[seat]
      legal_moves == generate_legal_moves(player.hand, room.last_hand)
  IN IF Len(legal_moves) = 0 THEN {<<>>}
     ELSE LET firsts == {i \in 1 .. Len(legal_moves) :
                           \A j \in 1 .. (i - 1) : Profile(legal_moves[j]) # Profile(legal_moves[i])}
              score == [i \in firsts |-> MoveScore(room, seat, legal_moves[i])]
              best_score == SetMax({score[i] : i \in firsts})
          IN {legal_moves[i] : i \in {k \in firsts : score[k] = best_score}}

select_best_move(room, seat) ==
  LET player == room.players[seat]
      legal_moves == generate_legal_moves(player.hand, room.last_hand)
  IN IF Len(legal_moves) = 0 THEN {<<>>}
     ELSE IF Defers(room, seat) THEN {<<>>}
     ELSE LET firsts == {i \in 1 .. Len(legal_moves) :
                           \A j \in 1 .. (i - 1) : Profile(legal_moves[j]) # Profile(legal_moves[i])}
              score == [i \in firsts |-> MoveScore(room, seat, legal_moves[i])]
              best_score == SetMax({score[i] : i \in firsts})
          IN {legal_moves[i] : i \in {k \in firsts : score[k] = best_score}}


\* ------------------------------------------------------------ room state
\* the creator's name and the names clients join with
CreatorName == "a"
\* (a client joins under a name no seated human uses)
JoinNames == {"b"}
BotName == "empty"

\* Player(i, name, team, is_bot, ready) with the dataclass defaults
Player(i, name, is_bot) ==
  [id |-> i, name |-> name, team |-> team_for_seat(i), hand |-> <<>>,
   ready |-> FALSE, is_bot |-> is_bot, finished |-> FALSE]

NewTurnHistory == [i \in Seats |-> [plays |-> 0, passes |-> 0]]

\* create_room(name).  logs holds only the most recent log entry (as a tag);
\* room_id, password and updated_at are not modelled.
create_room(name) ==
  [host_id |-> 0,
   players |-> [i \in Seats |-> IF i = 0 THEN Player(0, name, FALSE) ELSE Player(i, BotName, TRUE)],
   game_status |-> "waiting",
   turn_index |-> 0,
   last_hand |-> NoHand,
   pass_count |-> 0,
   winners |-> <<>>,
   hand_history |-> <<>>,
   spectator_names |-> <<>>,
   logs |-> "created",
   emotes |-> <<>>,
   player_turn_history |-> NewTurnHistory]

\* ------------------------------------------------------------ start_game
\* random.shuffle(deck): the shuffled deck is a permutation of the 54 cards.
\* Deal d is the permutation j |-> (a*j + b) mod 54 with a = ShuffleSteps[d]
\* (coprime to DeckSize) and b = ShuffleOffsets[d].
ShuffleSteps == <<25, 13, 19, 5, 7, 11, 17, 23>>
ShuffleOffsets == <<21, 9, 15, 0, 3, 6, 12, 18>>

Shuffle(d) ==
  LET a == ShuffleSteps[(d % Len(ShuffleSteps)) + 1]
      b == ShuffleOffsets[(d % Len(ShuffleOffsets)) + 1]
  IN [j \in 1 .. DeckSize |-> (a * (j - 1) + b) % DeckSize]

\* sorted(hand, key=value, reverse=True): stable, descending by value
RECURSIVE sort_hand(_)
sort_hand(hand) ==
  IF Len(hand) = 0 THEN <<>>
  ELSE LET rest == sort_hand(Tail(hand))
           c == Head(hand)
           \* c goes before every card of rest that does not have a larger value
           k == Cardinality({i \in 1 .. Len(rest) : Value(rest[i]) > Value(c)})
       IN SubSeq(rest, 1, k) \o <<c>> \o SubSeq(rest, k + 1, Len(rest))

\* [deck.pop() for _ in range(9)] for the p-th player (0-based): the deck is
\* consumed from its end.
Dealt(deck, p) == [i \in 1 .. HandSize |-> deck[Len(deck) - HandSize * p - (i - 1)]]

\* another outcome of random.shuffle: the shuffle of deck with the blocks of
\* cards dealt to seats s and t exchanged
SwapBlocks(deck, s, t) ==
  [j \in 1 .. Len(deck) |->
     LET q == (Len(deck) - j) \div HandSize
         k == (Len(deck) - j) % HandSize
     IN IF q = s THEN deck[Len(deck) - HandSize * t - k]
        ELSE IF q = t THEN deck[Len(deck) - HandSize * s - k]
        ELSE deck[j]]

HoldsHeart4(hand) == \E i \in 1 .. Len(hand) : SuitOf(hand[i]) = "H" /\ RankOf(hand[i]) = "4"

\* starter: the last seat in seat order whose hand has the Heart-4, else 0
Starter(players) ==
  LET holders == {p \in Seats : HoldsHeart4(players[p].hand)}
  IN IF holders = {} THEN 0 ELSE players[SetMax(holders)].id

\* (variant: winners is not cleared)
start_game_keep_winners(room, deck) ==
  LET players == [p \in Seats |->
                    [room.players[p] EXCEPT !.hand = sort_hand(Dealt(deck, p)),
                                            !.finished = FALSE]]
  IN [room EXCEPT !.players = players,
                  !.game_status = "playing",
                  !.turn_index = Starter(players),
                  !.last_hand = NoHand,
                  !.pass_count = 0,
                  !.hand_history = <<>>,
                  !.emotes = <<>>,
                  !.player_turn_history = NewTurnHistory,
                  !.logs = "start"]

\* (variant: the play and pass tallies are not reset)
start_game_keep_tallies(room, deck) ==
  LET players == [p \in Seats |->
                    [room.players[p] EXCEPT !.hand = sort_hand(Dealt(deck, p)),
                                            !.finished = FALSE]]
  IN [room EXCEPT !.players = players,
                  !.game_status = "playing",
                  !.turn_index = Starter(players),
                  !.last_hand = NoHand,
                  !.pass_count = 0,
                  !.winners = <<>>,
                  !.hand_history = <<>>,
                  !.emotes = <<>>,
                  !.logs = "start"]

\* start_game(room) up to the call of _run_bot_turns, for a shuffled deck
start_game(room, deck) ==
  LET players == [p \in Seats |->
                    [room.players[p] EXCEPT !.hand = sort_hand(Dealt(deck, p)),
                                            !.finished = FALSE]]
  IN [room EXCEPT !.players = players,
                  !.game_status = "playing",
                  !.turn_index = Starter(players),
                  !.last_hand = NoHand,
                  !.pass_count = 0,
                  !.winners = <<>>,
                  !.hand_history = <<>>,
                  !.emotes = <<>>,
                  !.player_turn_history = NewTurnHistory,
                  !.logs = "start"]

\* ---------------------------------------------------------- apply_action
Result(room, ok, msg) == [room |-> room, ok |-> ok, msg |-> msg]

LastN(s, n) == IF Len(s) <= n THEN s ELSE SubSeq(s, Len(s) - n + 1, Len(s))

\* selected = [c for c in cur.hand if c.id in set(card_ids or [])]
Selected(hand, card_ids) == SelectSeq(hand, LAMBDA c : c \in card_ids)

\* the pass branch of apply_action
\* (variant: a pass is tallied for the seat but not counted on the trick)
ApplyPassNoCount(room) ==
  LET cur == room.players[room.turn_index]
  IN [room EXCEPT !.player_turn_history[cur.id].passes = @ + 1,
                  !.logs = "pass"]

ApplyPass(room) ==
  LET cur == room.players[room.turn_index]
  IN [room EXCEPT !.pass_count = @ + 1,
                  !.player_turn_history[cur.id].passes = @ + 1,
                  !.logs = "pass"]

\* (variant: cards are removed by value instead of by id)
RemoveCardsByValue(hand, card_ids) ==
  SelectSeq(hand, LAMBDA c : Value(c) \notin {Value(d) : d \in card_ids})

\* cur.hand = [c for c in cur.hand if c.id not in set(card_ids)]
RemoveCards(hand, card_ids) == SelectSeq(hand, LAMBDA c : c \notin card_ids)

\* the play branch of apply_action once the selection is validated
ApplyPlay(room, player_id, card_ids) ==
  LET cur == room.players[room.turn_index]
      selected == Selected(cur.hand, card_ids)
      hand == RemoveCards(cur.hand, card_ids)
      a == analyze(selected)
      played == [player_id |-> player_id, cards |-> selected,
                 hand_type |-> a.type, main_rank |-> a.rank]
      finishes == Len(hand) = 0 /\ cur.id \notin Range(room.winners)
  IN [room EXCEPT !.players[room.turn_index].hand = hand,
                  !.players[room.turn_index].finished = IF finishes THEN TRUE ELSE @,
                  !.winners = IF finishes THEN Append(@, cur.id) ELSE @,
                  !.last_hand = played,
                  !.hand_history = LastN(Append(@, played), HistoryLimit),
                  !.player_turn_history[cur.id].plays = @ + 1,
                  !.pass_count = 0,
                  !.logs = "play"]

\* team_a_finished / team_b_finished
TeamFinished(room, team) ==
  Cardinality({p \in Seats : room.players[p].finished
                             /\ ((room.players[p].id \in TEAM_A) <=> (team = "A"))})

\* (variant: the team with 3 finished seats wins, whoever finished first)
RoundWinnerNoHead(room) == IF TeamFinished(room, "A") >= 3 THEN "A" ELSE "B"

\* The winner computed when the round ends: "A", "B" or "Draw"
RoundWinner(room) ==
  LET a == TeamFinished(room, "A")
      b == TeamFinished(room, "B")
      head_team == IF Len(room.winners) > 0 THEN room.players[room.winners[1]].team ELSE "none"
  IN IF a >= 3 /\ b >= 3 THEN "Draw"
     ELSE LET winner == IF a >= 3 THEN "A" ELSE "B"
          IN IF head_team # "none" /\ winner # head_team THEN "Draw" ELSE winner

\* (variant: the turn goes to the next seat whether or not it is finished)
NextTurnNoSkip(room) == (room.turn_index + 1) % NumSeats

\* for _ in range(6): turn_index = (turn_index + 1) % 6; stop at the first
\* unfinished seat (after 6 probes the index is back where it started)
NextTurn(room) ==
  LET probes == {k \in 1 .. NumSeats : ~room.players[(room.turn_index + k) % NumSeats].finished}
  IN IF probes = {} THEN (room.turn_index + NumSeats) % NumSeats
     ELSE (room.turn_index + SetMin(probes)) % NumSeats

\* (variant: the threshold ignores whether the trick's owner has finished)
PassThresholdAlive(room) == Cardinality({p \in Seats : ~room.players[p].finished}) - 1

\* (variant: the trick is reset only after as many passes as seats alive)
PassThresholdEverySeat(room) == Cardinality({p \in Seats : ~room.players[p].finished})

\* pass_threshold
PassThreshold(room) ==
  LET alive == Cardinality({p \in Seats : ~room.players[p].finished})
  IN IF room.last_hand # NoHand /\ room.players[room.last_hand.player_id].finished
       THEN alive ELSE alive - 1

\* (variant: after a finished owner the lead goes to the owner's next
\* unfinished teammate, if there is one)
ResetTrickToTeammate(room) ==
  LET last_winning_player_id == room.last_hand.player_id
      mates == {p \in Seats : /\ ~room.players[p].finished
                              /\ room.players[p].team = room.players[last_winning_player_id].team}
  IN [room EXCEPT !.last_hand = NoHand,
                  !.pass_count = 0,
                  !.turn_index = IF room.last_hand # NoHand
                                    /\ ~room.players[last_winning_player_id].finished
                                   THEN last_winning_player_id
                                   ELSE IF mates # {} THEN SetMin(mates) ELSE @,
                  !.logs = "reset",
                  !.player_turn_history =
                     [pid \in DOMAIN @ |-> [@[pid] EXCEPT !.passes = 0]]]

\* the block guarded by `room.pass_count >= pass_threshold`
ResetTrick(room) ==
  LET last_winning_player_id == room.last_hand.player_id
  IN [room EXCEPT !.last_hand = NoHand,
                  !.pass_count = 0,
                  !.turn_index = IF room.last_hand # NoHand
                                    /\ ~room.players[last_winning_player_id].finished
                                   THEN last_winning_player_id ELSE @,
                  !.logs = "reset",
                  !.player_turn_history =
                     [pid \in DOMAIN @ |-> [@[pid] EXCEPT !.passes = 0]]]

\* apply_action after the pass/play branch: round end, turn advance, reset
Settle(room) ==
  IF TeamFinished(room, "A") >= 3 \/ TeamFinished(room, "B") >= 3
    THEN [room EXCEPT !.game_status = "round_over",
                      !.logs = IF RoundWinner(room) = "Draw" THEN "draw"
                               ELSE IF RoundWinner(room) = "A" THEN "win_A" ELSE "win_B"]
    ELSE LET threshold == PassThreshold(room)
             advanced == [room EXCEPT !.turn_index = NextTurn(room)]
         IN IF advanced.pass_count >= threshold THEN ResetTrick(advanced) ELSE advanced

\* (variant: a pass is counted before the active trick is checked)
apply_action_count_first(room, player_id, action, card_ids) ==
  IF room.game_status # "playing" THEN Result(room, FALSE, "StateError")
  ELSE LET cur == room.players[room.turn_index]
       IN IF cur.id # player_id THEN Result(room, FALSE, "TurnError")
          ELSE IF action = "pass"
            THEN IF room.last_hand = NoHand
                   THEN Result([room EXCEPT !.pass_count = @ + 1], FALSE, "ActionError")
                   ELSE Result(Settle(ApplyPass(room)), TRUE, "ok")
            ELSE LET selected == Selected(cur.hand, card_ids)
                 IN IF Len(selected) = 0 THEN Result(room, FALSE, "ActionError")
                    ELSE IF ~can_beat(selected, room.last_hand)
                      THEN Result(room, FALSE, "ComboError")
                      ELSE Result(Settle(ApplyPlay(room, player_id, card_ids)), TRUE, "ok")

\* (variant: the action is validated before the turn)
apply_action_turn_last(room, player_id, action, card_ids) ==
  IF room.game_status # "playing" THEN Result(room, FALSE, "StateError")
  ELSE LET cur == room.players[room.turn_index]
       IN IF action = "pass" /\ room.last_hand = NoHand THEN Result(room, FALSE, "ActionError")
          ELSE IF cur.id # player_id THEN Result(room, FALSE, "TurnError")
          ELSE IF action = "pass" THEN Result(Settle(ApplyPass(room)), TRUE, "ok")
          ELSE LET selected == Selected(cur.hand, card_ids)
               IN IF Len(selected) = 0 THEN Result(room, FALSE, "ActionError")
                  ELSE IF ~can_beat(selected, room.last_hand)
                    THEN Result(room, FALSE, "ComboError")
                    ELSE Result(Settle(ApplyPlay(room, player_id, card_ids)), TRUE, "ok")

\* apply_action(room, player_id, action, card_ids, run_bots=False): the new
\* room and the (ok, message) pair.  Messages are named after the error
\* taxonomy: StateError "游戏未开始", TurnError "还没轮到你", ActionError
\* "新一轮必须出牌" / "未选择牌", ComboError "牌型不合法或压不过".
\* card_ids is the set of the submitted ids.
apply_action(room, player_id, action, card_ids) ==
  IF room.game_status # "playing" THEN Result(room, FALSE, "StateError")
  ELSE LET cur == room.players[room.turn_index]
       IN IF cur.id # player_id THEN Result(room, FALSE, "TurnError")
          ELSE IF action = "pass"
            THEN IF room.last_hand = NoHand THEN Result(room, FALSE, "ActionError")
                 ELSE Result(Settle(ApplyPass(room)), TRUE, "ok")
            ELSE LET selected == Selected(cur.hand, card_ids)
                 IN IF Len(selected) = 0 THEN Result(room, FALSE, "ActionError")
                    ELSE IF ~can_beat(selected, room.last_hand)
                      THEN Result(room, FALSE, "ComboError")
                      ELSE Result(Settle(ApplyPlay(room, player_id, card_ids)), TRUE, "ok")


\* ------------------------------------------------- lobby operations
InRange(i) == i >= 0 /\ i < NumSeats

Humans(room) == {p \in Seats : ~room.players[p].is_bot}

\* (variant: the list of departed names is not consulted)
join_room_forget_departed(room, name) ==
  IF room.game_status # "waiting"
    THEN [room |-> [room EXCEPT !.logs = "spectate"], pid |-> 0, spectator |-> TRUE]
  ELSE LET bots == {p \in Seats : room.players[p].is_bot}
       IN IF bots = {} THEN [room |-> room, pid |-> -1, spectator |-> FALSE]
          ELSE LET p == SetMin(bots)
               IN [room |-> [room EXCEPT !.players[p].name = name,
                                         !.players[p].is_bot = FALSE,
                                         !.players[p].ready = FALSE,
                                         !.logs = "join"],
                   pid |-> room.players[p].id, spectator |-> FALSE]

\* join_room(room, name): the new room and the returned (pid, spectator);
\* pid -1 stands for None
join_room(room, name) ==
  IF room.game_status # "waiting"
    THEN [room |-> [room EXCEPT !.logs = "spectate"], pid |-> 0, spectator |-> TRUE]
  ELSE IF name \in Range(room.spectator_names)
    THEN [room |-> [room EXCEPT !.logs = "watch_only"], pid |-> 0, spectator |-> TRUE]
  ELSE LET bots == {p \in Seats : room.players[p].is_bot}
       IN IF bots = {} THEN [room |-> room, pid |-> -1, spectator |-> FALSE]
          ELSE LET p == SetMin(bots)
               IN [room |-> [room EXCEPT !.players[p].name = name,
                                         !.players[p].is_bot = FALSE,
                                         !.players[p].ready = FALSE,
                                         !.logs = "join"],
                   pid |-> room.players[p].id, spectator |-> FALSE]

\* the host re-assignment loop of leave_room: first seat in seat order that
\* is not bot-controlled, if any
NewHost(room) ==
  LET humans == Humans(room)
  IN IF humans = {} THEN room.host_id ELSE room.players[SetMin(humans)].id

\* (variant: the agent is not triggered for a leaving turn holder)
leave_room_no_trigger(room, player_id) ==
  IF ~InRange(player_id)
    THEN [room |-> room, ok |-> FALSE, msg |-> "no_player", trigger |-> FALSE]
  ELSE LET leaver == room.players[player_id]
       IN IF leaver.is_bot THEN [room |-> room, ok |-> TRUE, msg |-> "ok", trigger |-> FALSE]
          ELSE LET named == IF leaver.name \notin Range(room.spectator_names)
                              THEN [room EXCEPT !.spectator_names = Append(@, leaver.name)]
                              ELSE room
               IN IF named.host_id = player_id /\ named.game_status = "playing"
                    THEN [room |-> [named EXCEPT !.game_status = "round_over", !.logs = "host_left"],
                          ok |-> TRUE, msg |-> "ok", trigger |-> FALSE]
                    ELSE [room |-> [named EXCEPT !.players[player_id].is_bot = TRUE,
                                                 !.players[player_id].ready = TRUE,
                                                 !.logs = "left"],
                          ok |-> TRUE, msg |-> "ok", trigger |-> FALSE]

\* (variant: the host's seat is handed to a bot when the round is ended)
leave_room_host_to_bot(room, player_id) ==
  IF ~InRange(player_id)
    THEN [room |-> room, ok |-> FALSE, msg |-> "no_player", trigger |-> FALSE]
  ELSE LET leaver == room.players[player_id]
       IN IF leaver.is_bot THEN [room |-> room, ok |-> TRUE, msg |-> "ok", trigger |-> FALSE]
          ELSE LET named == IF leaver.name \notin Range(room.spectator_names)
                              THEN [room EXCEPT !.spectator_names = Append(@, leaver.name)]
                              ELSE room
                   botted == [named EXCEPT !.players[player_id].is_bot = TRUE,
                                           !.players[player_id].ready = TRUE,
                                           !.logs = "left"]
               IN IF named.host_id = player_id /\ named.game_status = "playing"
                    THEN [room |-> [botted EXCEPT !.game_status = "round_over",
                                                  !.logs = "host_left"],
                          ok |-> TRUE, msg |-> "ok", trigger |-> FALSE]
                    ELSE LET hosted == IF botted.host_id = player_id /\ Humans(botted) # {}
                                         THEN [botted EXCEPT !.host_id = NewHost(botted),
                                                             !.logs = "new_host"]
                                         ELSE botted
                         IN [room |-> hosted, ok |-> TRUE, msg |-> "ok",
                             trigger |-> /\ hosted.game_status = "playing"
                                         /\ hosted.turn_index = player_id
                                         /\ ~hosted.players[player_id].finished]

\* leave_room(room, player_id) up to the agent trigger.  `trigger` tells
\* whether the agent then moves for the leaver.
leave_room(room, player_id) ==
  IF ~InRange(player_id)
    THEN [room |-> room, ok |-> FALSE, msg |-> "no_player", trigger |-> FALSE]
  ELSE LET leaver == room.players[player_id]
       IN IF leaver.is_bot THEN [room |-> room, ok |-> TRUE, msg |-> "ok", trigger |-> FALSE]
          ELSE LET named == IF leaver.name \notin Range(room.spectator_names)
                              THEN [room EXCEPT !.spectator_names = Append(@, leaver.name)]
                              ELSE room
               IN IF named.host_id = player_id /\ named.game_status = "playing"
                    THEN [room |-> [named EXCEPT !.game_status = "round_over", !.logs = "host_left"],
                          ok |-> TRUE, msg |-> "ok", trigger |-> FALSE]
                    ELSE LET botted == [named EXCEPT !.players[player_id].is_bot = TRUE,
                                                     !.players[player_id].ready = TRUE,
                                                     !.logs = "left"]
                             hosted == IF botted.host_id = player_id /\ Humans(botted) # {}
                                         THEN [botted EXCEPT !.host_id = NewHost(botted),
                                                             !.logs = "new_host"]
                                         ELSE botted
                         IN [room |-> hosted, ok |-> TRUE, msg |-> "ok",
                             trigger |-> /\ hosted.game_status = "playing"
                                         /\ hosted.turn_index = player_id
                                         /\ ~hosted.players[player_id].finished]

\* (variant: the teams travel with the occupants instead of being recomputed)
swap_seat_keep_team(room, player_id, target_seat_id) ==
  IF room.game_status # "waiting" THEN Result(room, FALSE, "not_waiting")
  ELSE IF ~InRange(player_id) THEN Result(room, FALSE, "no_player")
  ELSE IF ~InRange(target_seat_id) THEN Result(room, FALSE, "no_target")
  ELSE LET player == room.players[player_id]
           target == room.players[target_seat_id]
       IN IF player.is_bot THEN Result(room, FALSE, "bot_seat")
          ELSE IF ~target.is_bot THEN Result(room, FALSE, "occupied")
          ELSE Result(
                 [room EXCEPT
                    !.players = [@ EXCEPT
                       ![player_id] = [target EXCEPT !.id = player_id],
                       ![target_seat_id] = [player EXCEPT !.id = target_seat_id]],
                    !.host_id = IF @ = player_id THEN target_seat_id ELSE @,
                    !.logs = "swap"],
                 TRUE, "ok")

\* swap_seat(room, player_id, target_seat_id)
swap_seat(room, player_id, target_seat_id) ==
  IF room.game_status # "waiting" THEN Result(room, FALSE, "not_waiting")
  ELSE IF ~InRange(player_id) THEN Result(room, FALSE, "no_player")
  ELSE IF ~InRange(target_seat_id) THEN Result(room, FALSE, "no_target")
  ELSE LET player == room.players[player_id]
           target == room.players[target_seat_id]
       IN IF player.is_bot THEN Result(room, FALSE, "bot_seat")
          ELSE IF ~target.is_bot THEN Result(room, FALSE, "occupied")
          ELSE Result(
                 [room EXCEPT
                    !.players = [@ EXCEPT
                       ![player_id] = [target EXCEPT !.id = player_id,
                                                     !.team = team_for_seat(player_id)],
                       ![target_seat_id] = [player EXCEPT !.id = target_seat_id,
                                                          !.team = team_for_seat(target_seat_id)]],
                    !.host_id = IF @ = player_id THEN target_seat_id ELSE @,
                    !.logs = "swap"],
                 TRUE, "ok")

\* add_emote(room, sender_id, target_id, content); the timestamp of the
\* entry is not modelled
add_emote(room, sender_id, target_id, content) ==
  IF ~InRange(sender_id) THEN Result(room, FALSE, "no_sender")
  ELSE IF room.players[sender_id].is_bot THEN Result(room, FALSE, "bot_sender")
  ELSE IF target_id # -1 /\ ~InRange(target_id) THEN Result(room, FALSE, "no_target")
  ELSE Result([room EXCEPT !.emotes =
                 LastN(Append(@, [sender_id |-> sender_id, target_id |-> target_id,
                                  content |-> content]), EmoteLimit)],
              TRUE, "ok")

\* asdict of a Card: the record _create_deck made for the id
CardRecord(c) == create_deck[c]

FullCards(cards) == [i \in 1 .. Len(cards) |-> CardRecord(cards[i])]

IdsOnly(cards) == [i \in 1 .. Len(cards) |-> [id |-> cards[i]]]

FullHand(h) == [h EXCEPT !.cards = FullCards(h.cards)]

\* viewer_id None of serialize; every int that is no seat behaves alike
NoViewer == -1

\* (variant: the hand of every seat keeps its card records)
serialize_all_hands(room, viewer_id) ==
  [room EXCEPT
     !.players = [p \in Seats |->
                    [room.players[p] EXCEPT !.hand = FullCards(room.players[p].hand)]],
     !.last_hand = IF room.last_hand = NoHand THEN NoHand ELSE FullHand(room.last_hand),
     !.hand_history = [i \in 1 .. Len(room.hand_history) |-> FullHand(room.hand_history[i])]]

\* serialize(room, viewer_id): asdict(room) with the hands of the seats
\* other than the viewer's reduced to the ids of their cards
serialize(room, viewer_id) ==
  [room EXCEPT
     !.players = [p \in Seats |->
                    [room.players[p] EXCEPT !.hand =
                       IF viewer_id = NoViewer \/ room.players[p].id # viewer_id
                         THEN IdsOnly(room.players[p].hand)
                         ELSE FullCards(room.players[p].hand)]],
     !.last_hand = IF room.last_hand = NoHand THEN NoHand ELSE FullHand(room.last_hand),
     !.hand_history = [i \in 1 .. Len(room.hand_history) |-> FullHand(room.hand_history[i])]]

\* api_start: every human seat is ready
CanStart(room) == \A p \in Seats : ~room.players[p].is_bot => room.players[p].ready

\* the loop condition of _run_bot_turns
BotToMove(room) ==
  /\ room.game_status = "playing"
  /\ room.players[room.turn_index].is_bot
  /\ ~room.players[room.turn_index].finished

\* the request the agent makes for a move: play the cards, or pass for None
AgentRequest(seat, mv) ==
  IF mv # <<>> THEN [seat |-> seat, action |-> "play", card_ids |-> Range(mv)]
  ELSE [seat |-> seat, action |-> "pass", card_ids |-> {}]


\* ----------------------------------------------------------------- state
VARIABLES
  room,       \* the Room aggregate
  pc,         \* "idle", or the handler whose _run_bot_turns loop is running
  ret,        \* the value returned by the latest engine call of a client
  submitted,  \* the latest apply_action call made for the agent, with its result
  discarded   \* history: cards put on the table by accepted plays this round

vars == <<room, pc, ret, submitted, discarded>>

NoSubmit == [seat |-> -1, action |-> "none", card_ids |-> {}, ok |-> TRUE, msg |-> "none"]

Ret(op, ok, msg) == [op |-> op, ok |-> ok, msg |-> msg]

Init ==
  /\ room = create_room(CreatorName)
  /\ pc = "idle"
  /\ ret = Ret("create_room", TRUE, "ok")
  /\ submitted = NoSubmit
  /\ discarded = {}

\* cards an accepted request puts on the table
Tabled(r, action) == IF r.ok /\ action # "pass" THEN Range(r.room.last_hand.cards) ELSE {}

\* POST /start -> start_game(room): deal, then the bot loop starts
StartGame ==
  /\ pc = "idle"
  /\ CanStart(room)
  /\ \E d \in 0 .. MaxDeal :
       room' = start_game(room, Shuffle(d))
  /\ pc' = "start_game"
  /\ ret' = Ret("start_game", TRUE, "ok")
  /\ submitted' = NoSubmit
  /\ discarded' = {}

\* one iteration of the loop of _run_bot_turns
BotTurn ==
  /\ pc # "idle"
  /\ BotToMove(room)
  /\ \E mv \in select_best_move(room, room.turn_index) :
       LET req == AgentRequest(room.players[room.turn_index].id, mv)
           r == apply_action(room, req.seat, req.action, req.card_ids)
       IN /\ room' = r.room
          /\ submitted' = [seat |-> req.seat, action |-> req.action,
                           card_ids |-> req.card_ids, ok |-> r.ok, msg |-> r.msg]
          /\ discarded' = discarded \cup Tabled(r, req.action)
  /\ UNCHANGED <<pc, ret>>

\* the loop of _run_bot_turns ends and the handler returns
BotsDone ==
  /\ pc # "idle"
  /\ ~BotToMove(room)
  /\ pc' = "idle"
  /\ UNCHANGED <<room, ret, submitted, discarded>>

\* requests a client submits at the turn holder's hand: the agent's choice,
\* a pass, an empty play, the lowest card, the two lowest cards, a card that
\* is in no hand of the seat, and the lowest card together with such a card
ActionSeats == {-1, 0, 1}
Actions == {"play", "pass", ""}

Suggested(rm) ==
  IF rm.game_status = "playing"
    THEN {AgentRequest(rm.turn_index, mv) : mv \in select_best_move(rm, rm.turn_index)}
    ELSE {}

ForeignCard(hand) == SetMin(CardIds \ Range(hand))

ClientCards(rm) ==
  LET hand == rm.players[rm.turn_index].hand
      n == Len(hand)
  IN {{}, {ForeignCard(hand)}}
     \cup (IF n >= 1 THEN {{hand[n]}, {hand[n], ForeignCard(hand)}} ELSE {})
     \cup (IF n >= 2 THEN {{hand[n - 1], hand[n]}} ELSE {})

ClientRequests(rm) ==
  {[seat |-> s, action |-> a, card_ids |-> c] :
      s \in ActionSeats, a \in Actions, c \in ClientCards(rm)}

InOpening(rm) == rm.game_status # "playing" \/ Len(rm.hand_history) < MaxOpening

\* POST /action -> apply_action(room, player_id, action, card_ids)
ApplyAction ==
  /\ pc = "idle"
  /\ \E req \in (IF InOpening(room) THEN ClientRequests(room) ELSE {}) \cup Suggested(room) :
       LET r == apply_action(room, req.seat, req.action, req.card_ids)
       IN /\ room' = r.room
          /\ ret' = Ret("apply_action", r.ok, r.msg)
          /\ pc' = IF r.ok /\ r.room.game_status = "playing" THEN "apply_action" ELSE "idle"
          /\ discarded' = discarded \cup Tabled(r, req.action)
  /\ submitted' = NoSubmit

\* POST /leave -> leave_room(room, player_id)
LeaveRoom ==
  /\ pc = "idle"
  /\ InOpening(room)
  /\ \E player_id \in {-1} \cup Seats \cup {NumSeats} :
       LET l == leave_room(room, player_id)
       IN /\ ret' = Ret("leave_room", l.ok, l.msg)
          /\ IF l.trigger
               THEN \E mv \in select_best_move(l.room, player_id) :
                      LET req == AgentRequest(l.room.players[player_id].id, mv)
                          r == apply_action(l.room, req.seat, req.action, req.card_ids)
                      IN /\ room' = r.room
                         /\ submitted' = [seat |-> req.seat, action |-> req.action,
                                          card_ids |-> req.card_ids, ok |-> r.ok, msg |-> r.msg]
                         /\ discarded' = discarded \cup Tabled(r, req.action)
                         /\ pc' = IF r.ok /\ r.room.game_status = "playing"
                                    THEN "leave_room" ELSE "idle"
               ELSE /\ room' = l.room
                    /\ submitted' = NoSubmit
                    /\ pc' = "idle"
                    /\ UNCHANGED discarded

\* POST /join -> join_room(room, name)
JoinRoom ==
  /\ pc = "idle"
  /\ InOpening(room)
  /\ \E name \in JoinNames \ {room.players[p].name : p \in Humans(room)} :
       LET j == join_room(room, name)
       IN /\ room' = j.room
          /\ ret' = [op |-> "join_room", ok |-> j.pid # -1,
                     msg |-> IF j.spectator THEN "spectator" ELSE "player", pid |-> j.pid]
  /\ UNCHANGED <<pc, submitted, discarded>>

SwapPlayers == {-1, 0, 1}
SwapTargets == {1, NumSeats}

\* POST /swap-seat -> swap_seat(room, player_id, target_seat_id)
SwapSeat ==
  /\ pc = "idle"
  /\ InOpening(room)
  /\ \E player_id \in SwapPlayers, target_seat_id \in SwapTargets :
       LET r == swap_seat(room, player_id, target_seat_id)
       IN /\ room' = r.room
          /\ ret' = Ret("swap_seat", r.ok, r.msg)
  /\ UNCHANGED <<pc, submitted, discarded>>

EmoteSenders == {-1, 0}
EmoteTargets == {-1, NumSeats}

\* POST /emote -> add_emote(room, sender_id, target_id, content).  Emotes
\* that are accepted are sent in the lobby, at most MaxEmotes of them;
\* requests that are rejected are sent in every state.
AddEmote ==
  /\ pc = "idle"
  /\ InOpening(room)
  /\ \E sender_id \in EmoteSenders, target_id \in EmoteTargets :
       LET r == add_emote(room, sender_id, target_id, "hi")
       IN /\ r.ok => (Len(room.emotes) < MaxEmotes /\ room.game_status = "waiting")
          /\ room' = r.room
          /\ ret' = Ret("add_emote", r.ok, r.msg)
  /\ UNCHANGED <<pc, submitted, discarded>>

\* POST /ready (api_ready): a human client marks its seat ready
SetReady ==
  /\ pc = "idle"
  /\ InOpening(room)
  /\ \E pid \in Humans(room) :
       /\ ~room.players[pid].ready
       /\ room' = [room EXCEPT !.players[pid].ready = TRUE]
  /\ ret' = Ret("ready", TRUE, "ok")
  /\ UNCHANGED <<pc, submitted, discarded>>

StateViewers == {0}

\* GET /state (api_state) -> serialize(room, viewer): the room is read, not
\* written.  The client polls while a trick is on the table.
GetState ==
  /\ pc = "idle"
  /\ InOpening(room)
  /\ room.game_status = "playing"
  /\ room.last_hand # NoHand
  /\ \E viewer \in StateViewers :
       ret' = [op |-> "serialize", ok |-> TRUE, msg |-> "ok", viewer |-> viewer]
  /\ UNCHANGED <<room, pc, submitted, discarded>>

Next ==
  \/ StartGame
  \/ BotTurn
  \/ BotsDone
  \/ ApplyAction
  \/ LeaveRoom
  \/ JoinRoom
  \/ SwapSeat
  \/ AddEmote
  \/ SetReady
  \/ GetState

Spec == Init /\ [][Next]_vars

TypeOK ==
  /\ pc \in {"idle", "start_game", "apply_action", "leave_room"}
  /\ room.game_status \in {"waiting", "playing", "round_over"}
  /\ room.turn_index \in Seats
  /\ room.host_id \in Seats

\* ------------------------------------------------- concurrent requests
\* The handlers of app.py take no lock and the server handles requests in
\* threads; the loop of _run_bot_turns sleeps (time.sleep(1)) in every
\* iteration, between its test of the turn holder and the agent's move.

\* POST /leave handled by another thread while the bot loop of a call
\* sleeps.  The turn holder is a bot, so the leaver does not hold the turn
\* and leave_room triggers no move.
SleepLeave ==
  /\ pc # "idle"
  /\ BotToMove(room)
  /\ InOpening(room)
  /\ \E player_id \in Humans(room) :
       LET l == leave_room(room, player_id)
       IN /\ room' = l.room
          /\ ret' = Ret("leave_room", l.ok, l.msg)
  /\ UNCHANGED <<pc, submitted, discarded>>

\* the loop wakes after the host's leave has ended the round: it submits
\* the agent's move for the seat it tested before the sleep
StaleTurn ==
  /\ pc # "idle"
  /\ room.game_status = "round_over"
  /\ room.logs = "host_left"
  /\ submitted.msg # "StateError"
  /\ \E mv \in select_best_move(room, room.turn_index) :
       LET req == AgentRequest(room.players[room.turn_index].id, mv)
           r == apply_action(room, req.seat, req.action, req.card_ids)
       IN /\ room' = r.room
          /\ submitted' = [seat |-> req.seat, action |-> req.action,
                           card_ids |-> req.card_ids, ok |-> r.ok, msg |-> r.msg]
  /\ UNCHANGED <<pc, ret, discarded>>

\* the requests that lead to a bot loop, the loop, and the requests of
\* other threads during its sleep
ConcNext ==
  \/ JoinRoom
  \/ SwapSeat
  \/ SetReady
  \/ StartGame
  \/ BotTurn
  \/ BotsDone
  \/ ApplyAction
  \/ SleepLeave
  \/ StaleTurn

ConcSpec == Init /\ [][ConcNext]_vars

\* ------------------------------------------------- the pure functions
\* _analyze and _generate_legal_moves applied to inputs drawn from bounded
\* sets.  The input of a call and its result are held in ret.

\* cards given to analyze: the four 4s, a 5 and the wildcards 2, 3, SJ, BJ
AnalyzeCards == {0, 13, 26, 39, 1, 11, 12, 52, 53}

\* lists of up to MaxCards different cards, in every order
AnalyzeInputs ==
  {cards \in UNION {[1 .. n -> AnalyzeCards] : n \in 0 .. MaxCards} :
     \A i, j \in 1 .. Len(cards) : i # j => cards[i] # cards[j]}

\* hands given to generate_legal_moves: the cards of a hand in the order
\* _sort_hand keeps
MoveHandCards == sort_hand(<<0, 13, 26, 39, 1, 11, 12, 52, 53>>)

MoveHands == {SelectSeq(MoveHandCards, LAMBDA c : c \in S) : S \in SUBSET Range(MoveHandCards)}

\* PlayedHand(player_id, cards, t, v) as apply_action builds it
PlayedHand(player_id, cards) ==
  [player_id |-> player_id, cards |-> cards,
   hand_type |-> analyze(cards).type, main_rank |-> analyze(cards).rank]

\* tricks on the table: none, a single 5, a single 3, a pair, a triple and a
\* quad of 5s (the quad with a wildcard 2), a pair of 2s
MoveLasts ==
  {NoHand} \cup {PlayedHand(0, cards) :
     cards \in {<<14>>, <<25>>, <<14, 27>>, <<14, 27, 40>>, <<24, 14, 27, 40>>, <<24, 37>>}}

PureInit ==
  /\ room = create_room(CreatorName)
  /\ pc = "call"
  /\ submitted = NoSubmit
  /\ discarded = {}
  /\ ret \in {[op |-> "analyze_input", cards |-> cards] : cards \in AnalyzeInputs}
          \cup {[op |-> "moves_input", hand |-> hand, last |-> last] :
                  hand \in MoveHands, last \in MoveLasts}

\* _analyze(cards)
Analyze ==
  /\ ret.op = "analyze_input"
  /\ ret' = [op |-> "analyze", cards |-> ret.cards, result |-> analyze(ret.cards)]
  /\ UNCHANGED <<room, pc, submitted, discarded>>

\* _generate_legal_moves(hand, last)
GenerateLegalMoves ==
  /\ ret.op = "moves_input"
  /\ ret' = [op |-> "generate_legal_moves", hand |-> ret.hand, last |-> ret.last,
             result |-> generate_legal_moves(ret.hand, ret.last)]
  /\ UNCHANGED <<room, pc, submitted, discarded>>

PureNext ==
  \/ Analyze
  \/ GenerateLegalMoves

PureSpec == PureInit /\ [][PureNext]_vars

\* ------------------------------------------------------------ the lobby
\* The room before the round: newcomers fill the seats, humans change
\* seats and leave, and the round starts once all six seats are held by
\* ready humans, so that no seat is played by the agent.  join_room does not
\* compare a newcomer's name with the names seated, so several seats may
\* hold the same name.

\* POST /join -> join_room(room, name)
LobbyJoin ==
  /\ pc = "idle"
  /\ \E name \in JoinNames :
       LET j == join_room(room, name)
       IN /\ room' = j.room
          /\ ret' = [op |-> "join_room", ok |-> j.pid # -1,
                     msg |-> IF j.spectator THEN "spectator" ELSE "player", pid |-> j.pid]
  /\ UNCHANGED <<pc, submitted, discarded>>

LobbyLeavers == {0, 1, 2}

\* POST /leave -> leave_room(room, player_id), before the round
LobbyLeave ==
  /\ pc = "idle"
  /\ room.game_status = "waiting"
  /\ \E player_id \in LobbyLeavers :
       LET l == leave_room(room, player_id)
       IN /\ room' = l.room
          /\ ret' = Ret("leave_room", l.ok, l.msg)
  /\ UNCHANGED <<pc, submitted, discarded>>

LobbySwappers == {-1, 0, 1}
LobbyTargets == {0, 1, 2, NumSeats}

\* POST /swap-seat -> swap_seat(room, player_id, target_seat_id)
LobbySwap ==
  /\ pc = "idle"
  /\ \E player_id \in LobbySwappers, target_seat_id \in LobbyTargets :
       LET r == swap_seat(room, player_id, target_seat_id)
       IN /\ room' = r.room
          /\ ret' = Ret("swap_seat", r.ok, r.msg)
  /\ UNCHANGED <<pc, submitted, discarded>>

\* POST /ready (api_ready), once every seat is taken: the humans mark their
\* seats ready in seat order
LobbyReady ==
  /\ pc = "idle"
  /\ room.game_status = "waiting"
  /\ Humans(room) = Seats
  /\ \E pid \in Seats :
       /\ ~room.players[pid].ready
       /\ \A q \in Seats : q < pid => room.players[q].ready
       /\ room' = [room EXCEPT !.players[pid].ready = TRUE]
  /\ ret' = Ret("ready", TRUE, "ok")
  /\ UNCHANGED <<pc, submitted, discarded>>

\* POST /start -> start_game(room) for a room of six humans
LobbyStart ==
  /\ pc = "idle"
  /\ room.game_status = "waiting"
  /\ Humans(room) = Seats
  /\ CanStart(room)
  /\ room' = start_game(room, Shuffle(0))
  /\ pc' = "start_game"
  /\ ret' = Ret("start_game", TRUE, "ok")
  /\ submitted' = NoSubmit
  /\ discarded' = {}

LobbyNext ==
  \/ LobbyJoin
  \/ LobbyLeave
  \/ LobbySwap
  \/ LobbyReady
  \/ LobbyStart
  \/ BotsDone

LobbySpec == Init /\ [][LobbyNext]_vars

\* ------------------------------------------------------------ properties
Dealt54 == room.game_status \in {"playing", "round_over"}
Hand(p) == room.players[p].hand
Unfinished(rm) == {p \in Seats : ~rm.players[p].finished}
\* the step is the deal of start_game
DealStep == pc = "idle" /\ pc' = "start_game"
\* every set of cards a client can select from the turn holder's hand
HandSelections(rm) == SUBSET Range(rm.players[rm.turn_index].hand)

\* C1: while the status is playing, turn_index names a seat whose finished
\* flag is false (in every state, hence after every accepted apply_action
\* that does not end the round).
C1_TurnOnUnfinished ==
  room.game_status = "playing" => ~room.players[room.turn_index].finished

\* a play has just emptied its actor's hand and the round goes on
C1_Witness ==
  /\ room.game_status = "playing"
  /\ room.last_hand # NoHand
  /\ room.pass_count = 0
  /\ room.players[room.last_hand.player_id].finished
  /\ Len(room.winners) >= 2

\* C2 (state part): in every state, a rejected apply_action, swap_seat,
\* add_emote or leave_room returns the room it was given, and the same call
\* on the returned room is rejected with the same message.
C2_RejectedCallsKeepRoom ==
  /\ \A req \in ClientRequests(room) :
       LET r == apply_action(room, req.seat, req.action, req.card_ids)
       IN ~r.ok => /\ r.room = room
                   /\ apply_action(r.room, req.seat, req.action, req.card_ids) = r
  /\ \A p \in SwapPlayers, t \in SwapTargets :
       LET r == swap_seat(room, p, t)
       IN ~r.ok => r.room = room /\ swap_seat(r.room, p, t) = r
  /\ \A sd \in EmoteSenders, t \in EmoteTargets :
       LET r == add_emote(room, sd, t, "hi")
       IN ~r.ok => r.room = room /\ add_emote(r.room, sd, t, "hi") = r
  /\ \A p \in {-1} \cup Seats \cup {NumSeats} :
       LET l == leave_room(room, p)
       IN ~l.ok => l.room = room /\ leave_room(l.room, p) = l

\* C2: whenever an engine operation reports failure, the room after the call
\* is the room before it, and resubmitting the call on that state fails the
\* same way.
C2_RejectionIsIdempotent ==
  /\ []C2_RejectedCallsKeepRoom
  /\ [][(~ret'.ok) => room' = room]_vars

\* a client's action has just been rejected during a round
C2_Witness ==
  /\ ret.op = "apply_action"
  /\ ~ret.ok
  /\ room.game_status = "playing"
  /\ room.last_hand # NoHand

C3_Results == {"win_A", "win_B", "draw"}
C3_Tag(team) == IF team = "A" THEN "win_A" ELSE "win_B"

\* C3 (state part): while playing each team has at most 2 finished seats; a
\* recorded win of a team means this team has 3 finished seats and is the
\* team of winners[0]; a recorded draw means the team with 3 finished seats
\* is not the team of winners[0].
C3_ResultMatchesHead ==
  /\ room.game_status = "playing" =>
       \A team \in {"A", "B"} : TeamFinished(room, team) <= 2
  /\ (room.game_status = "round_over" /\ room.logs \in C3_Results) =>
       /\ Len(room.winners) > 0
       /\ \E team \in {"A", "B"} :
            /\ TeamFinished(room, team) = 3
            /\ room.logs = IF team_for_seat(room.winners[1]) = team
                             THEN C3_Tag(team) ELSE "draw"
       /\ room.logs # C3_Tag(IF team_for_seat(room.winners[1]) = "A" THEN "B" ELSE "A")

\* C3: apply_action ends the round exactly on the accepted action after
\* which a team has 3 finished seats, and the result recorded then is a win
\* of that team if it is the team of the first finisher and a draw
\* otherwise.
C3_RoundEndAndHeadRule ==
  /\ []C3_ResultMatchesHead
  /\ [][(room.game_status = "playing" /\ room'.game_status = "round_over"
         /\ room'.logs # "host_left")
        => /\ room'.logs \in C3_Results
           /\ \E team \in {"A", "B"} :
                TeamFinished(room, team) = 2 /\ TeamFinished(room', team) = 3]_vars

\* the round ended with the other team completing first: a draw
C3_Witness ==
  /\ room.game_status = "round_over"
  /\ room.logs = "draw"
  /\ TeamFinished(room, team_for_seat(room.winners[1])) < 3

\* C4: for the pass of the turn holder on an active trick, with n unfinished
\* seats and threshold n-1 (owner unfinished) or n (owner finished): when
\* the pass counter reaches the threshold the trick is cleared, the counter
\* and all pass tallies are 0, play tallies are unchanged and the turn is at
\* the owner if unfinished; below the threshold the trick stays as it is.
C4_PassOutReset ==
  (room.game_status = "playing" /\ room.last_hand # NoHand) =>
    LET r == apply_action(room, room.turn_index, "pass", {})
        after == r.room
        owner == room.last_hand.player_id
        n == Cardinality(Unfinished(after))
        threshold == IF owner \in Unfinished(after) THEN n - 1 ELSE n
    IN /\ r.ok
       /\ IF room.pass_count + 1 >= threshold
            THEN /\ after.last_hand = NoHand
                 /\ after.pass_count = 0
                 /\ \A p \in Seats :
                      /\ after.player_turn_history[p].passes = 0
                      /\ after.player_turn_history[p].plays = room.player_turn_history[p].plays
                 /\ owner \in Unfinished(after) => after.turn_index = owner
            ELSE /\ after.last_hand = room.last_hand
                 /\ after.pass_count = room.pass_count + 1

\* a pass has just reset a trick whose owner had finished
C4_Witness ==
  /\ room.game_status = "playing"
  /\ room.logs = "reset"
  /\ room.last_hand = NoHand
  /\ Len(room.hand_history) > 0
  /\ room.players[room.hand_history[Len(room.hand_history)].player_id].finished

\* the result the precedence of C5 prescribes for a request
C5_Expected(rm, seat, action, card_ids) ==
  IF rm.game_status # "playing" THEN "StateError"
  ELSE IF seat # rm.turn_index THEN "TurnError"
  ELSE IF action = "pass" /\ rm.last_hand = NoHand THEN "ActionError"
  ELSE IF action # "pass" /\ card_ids \cap Range(rm.players[seat].hand) = {} THEN "ActionError"
  ELSE IF action # "pass"
          /\ ~can_beat(Selected(rm.players[seat].hand, card_ids), rm.last_hand)
    THEN "ComboError"
  ELSE "ok"

\* C5: apply_action rejects with the precedence StateError, TurnError,
\* ActionError, ComboError and accepts every other request.
C5_RejectionPrecedence ==
  \A req \in ClientRequests(room) \cup
             {[seat |-> room.turn_index, action |-> a, card_ids |-> c] :
                 a \in Actions, c \in ClientCards(room)} :
    LET r == apply_action(room, req.seat, req.action, req.card_ids)
    IN /\ r.msg = C5_Expected(room, req.seat, req.action, req.card_ids)
       /\ r.ok <=> (r.msg = "ok")

\* the turn holder's play has just been rejected as not beating the trick
C5_Witness ==
  /\ ret.op = "apply_action"
  /\ ret.msg = "ComboError"
  /\ ~ret.ok

C6_Valid == {"single", "pair", "triple", "quad"}

\* C6 (state part): with no active trick a play of the turn holder is
\* accepted iff its cards analyze to single, pair, triple or quad; on an
\* active trick an accepted play has the trick's type and card count and a
\* strictly greater rank.
C6_AcceptedPlays ==
  room.game_status = "playing" =>
    \A c \in HandSelections(room) :
      LET sel == Selected(room.players[room.turn_index].hand, c)
          r == apply_action(room, room.turn_index, "play", c)
      IN IF room.last_hand = NoHand
           THEN r.ok <=> (analyze(sel).type \in C6_Valid)
           ELSE r.ok => /\ analyze(sel).type = room.last_hand.hand_type
                        /\ Len(sel) = Len(room.last_hand.cards)
                        /\ analyze(sel).rank > room.last_hand.main_rank

\* C6: between the lead of a trick and its reset the combo type on the table
\* never changes and its rank strictly increases with each accepted play.
C6_TrickTypeAndRank ==
  /\ []C6_AcceptedPlays
  /\ [][(room.last_hand # NoHand /\ room'.last_hand # NoHand
         /\ room'.last_hand # room.last_hand)
        => /\ room'.last_hand.hand_type = room.last_hand.hand_type
           /\ Len(room'.last_hand.cards) = Len(room.last_hand.cards)
           /\ room'.last_hand.main_rank > room.last_hand.main_rank]_vars

\* a pair has just been played over a pair
C6_Witness ==
  /\ room.last_hand # NoHand
  /\ room.last_hand.hand_type = "pair"
  /\ Len(room.hand_history) >= 2
  /\ room.pass_count = 0
  /\ LET prev == room.hand_history[Len(room.hand_history) - 1]
     IN /\ prev.hand_type = "pair"
        /\ prev.player_id # room.last_hand.player_id
        /\ prev.main_rank < room.last_hand.main_rank
        \* a pass tally is positive: no reset since the previous play
        /\ \E p \in Seats : room.player_turn_history[p].passes > 0

\* C7 (state part): when start_game, an accepted apply_action or leave_room
\* has returned, the round is not playing or the turn holder is not a bot.
C7_TurnNotLeftOnBot ==
  (pc = "idle" /\ ret.ok /\ ret.op \in {"start_game", "apply_action", "leave_room"}) =>
     \/ room.game_status # "playing"
     \/ ~room.players[room.turn_index].is_bot

\* the work left for a running bot loop: the cards still in hands, then the
\* passes the active trick can still take before it is reset
LoopMeasure(rm) ==
  100 * SumSeq([i \in 1 .. NumSeats |-> Len(rm.players[i - 1].hand)])
    + (IF rm.last_hand = NoHand THEN 0 ELSE 1 + NumSeats - rm.pass_count)

\* C7: the chain of agent moves terminates and never leaves the turn on a
\* bot: every iteration of a running bot loop strictly decreases
\* LoopMeasure, which is never negative, so the loop runs finitely often
\* before the handler returns; and a handler that has returned leaves the
\* round not playing or the turn on a human seat.
C7_BotChainReturns ==
  /\ []C7_TurnNotLeftOnBot
  /\ [](LoopMeasure(room) >= 0 /\ room.pass_count <= NumSeats)
  /\ [][(pc # "idle" /\ pc' # "idle")
        => /\ BotToMove(room)
           /\ LoopMeasure(room') < LoopMeasure(room)]_vars
  /\ [][(pc = "idle" /\ ret'.op = "leave_room" /\ submitted' # NoSubmit)
        => LoopMeasure(room') < LoopMeasure(room)]_vars

\* a human who held the turn and is not the host has left mid-round: the
\* agent moved for the seat and the call returned with the round going on
C7_Witness ==
  /\ pc = "idle"
  /\ ret.op = "leave_room"
  /\ submitted # NoSubmit
  /\ room.game_status = "playing"
  /\ \E p \in Seats : room.players[p].is_bot /\ room.players[p].name \in JoinNames

\* C8: every action the agent submits is accepted; a play it submits is one
\* of generate_legal_moves for the seat's hand and the trick, a pass is
\* submitted only on an active trick, and a seat leading a trick always has
\* a candidate and plays.
C8_AgentActionsAccepted ==
  /\ submitted.ok
  /\ room.game_status = "playing" =>
       LET seat == room.turn_index
           legal == generate_legal_moves(room.players[seat].hand, room.last_hand)
       IN /\ room.last_hand = NoHand => Len(legal) > 0
          /\ \A mv \in select_best_move(room, seat) :
               LET req == AgentRequest(room.players[seat].id, mv)
               IN /\ apply_action(room, req.seat, req.action, req.card_ids).ok
                  /\ mv # <<>> => \E i \in 1 .. Len(legal) : legal[i] = mv
                  /\ mv = <<>> => room.last_hand # NoHand
                  /\ room.last_hand = NoHand => req.action = "play"

\* a bot holding the turn without an active trick has just led, after the
\* previous trick was passed out
C8_Witness ==
  /\ submitted.action = "play"
  /\ submitted.ok
  /\ room.players[submitted.seat].is_bot
  /\ room.last_hand # NoHand
  /\ room.last_hand.player_id = submitted.seat
  /\ Len(room.hand_history) >= 2
  /\ room.hand_history[Len(room.hand_history) - 1].hand_type # room.last_hand.hand_type

AllHands == UNION {Range(Hand(p)) : p \in Seats}

\* C9 (state part): after a deal the six hands and the cards played are
\* exactly the 54 cards, each in one place.
C9_DeckPartition ==
  Dealt54 =>
    /\ AllHands \cup discarded = CardIds
    /\ AllHands \cap discarded = {}
    /\ \A p \in Seats : Cardinality(Range(Hand(p))) = Len(Hand(p))
    /\ \A p, q \in Seats : p # q => Range(Hand(p)) \cap Range(Hand(q)) = {}
    /\ SumSeq([i \in 1 .. NumSeats |-> Len(Hand(i - 1))]) + Cardinality(discarded) = DeckSize

\* C9: card conservation; an accepted play removes exactly the selected
\* cards from the acting seat's hand and changes no other hand.
C9_CardConservation ==
  /\ []C9_DeckPartition
  /\ [][(~DealStep /\ room.game_status = "playing")
        => LET tabled == discarded' \ discarded
           IN /\ tabled \subseteq Range(Hand(room.turn_index))
              /\ \A p \in Seats :
                   room'.players[p].hand =
                     IF p = room.turn_index
                       THEN SelectSeq(Hand(p), LAMBDA c : c \notin tabled)
                       ELSE Hand(p)]_vars

\* wildcards have been played next to cards of their value still in hands
C9_Witness ==
  /\ Dealt54
  /\ Cardinality(discarded) >= 2 * HandSize
  /\ \E c \in discarded, p \in Seats : \E i \in 1 .. Len(Hand(p)) : Value(Hand(p)[i]) = Value(c)

\* C10 (state part): after a deal, winners has no seat twice and a seat is
\* in winners iff it is finished iff its hand is empty.
C10_WinnersMatchHands ==
  Dealt54 =>
    /\ Cardinality(Range(room.winners)) = Len(room.winners)
    /\ \A p \in Seats :
         /\ (p \in Range(room.winners)) <=> room.players[p].finished
         /\ room.players[p].finished <=> (Len(Hand(p)) = 0)

\* C10: winners lists each seat at most once in the order the hands
\* emptied: a step other than a deal leaves winners alone or appends the
\* seat whose hand it has emptied.
C10_WinnersInFinishOrder ==
  /\ []C10_WinnersMatchHands
  /\ [][(~DealStep)
        => \/ room'.winners = room.winners
           \/ \E p \in Seats :
                /\ room'.winners = Append(room.winners, p)
                /\ Len(Hand(p)) > 0
                /\ Len(room'.players[p].hand) = 0]_vars

\* a round ended with four seats finished, of both teams
C10_Witness ==
  /\ room.game_status = "round_over"
  /\ Len(room.winners) >= 4
  /\ team_for_seat(room.winners[1]) # team_for_seat(room.winners[2])
\* the shape of a round at the moment of the deal
C11_FreshShape(rm) ==
  /\ rm.game_status = "playing"
  /\ \A p \in Seats :
       /\ Len(rm.players[p].hand) = HandSize
       /\ Cardinality(Range(rm.players[p].hand)) = HandSize
       /\ ~rm.players[p].finished
       /\ rm.player_turn_history[p] = [plays |-> 0, passes |-> 0]
  /\ UNION {Range(rm.players[p].hand) : p \in Seats} = CardIds
  /\ rm.winners = <<>>
  /\ rm.hand_history = <<>>
  /\ rm.last_hand = NoHand
  /\ rm.pass_count = 0
  /\ HoldsHeart4(rm.players[rm.turn_index].hand)
  /\ \A p \in Seats : HoldsHeart4(rm.players[p].hand) => p = rm.turn_index

\* C11: every deal of start_game, from a waiting room, from a round in
\* progress and from a finished round, gives the fresh round shape: status
\* playing, 9 cards in each of the 6 hands and none undealt, no finished
\* seat, winners and hand history empty, no active trick, pass counter and
\* all tallies 0, the turn at the seat that holds the Heart-4.
C11_StartGameFresh ==
  [][DealStep => C11_FreshShape(room')]_vars

\* a deal has just been made in a room whose previous round was ended by
\* the host leaving it
C11_Witness ==
  /\ pc = "start_game"
  /\ room.logs = "start"
  /\ room.hand_history = <<>>
  /\ \E p \in Humans(room) : room.players[p].name \in Range(room.spectator_names)

\* C12: operations on one room are serialized: while the bot chain of a
\* call runs, no other request takes effect (no step of the chain returns a
\* result to another client), and the room is only in states that running
\* the requests one after the other produces: a round force-ended by the
\* host's leave has its turn on a seat that is not a bot waiting to move.
C12_CallsSerialized ==
  /\ [][(pc # "idle") => (ret' = ret)]_vars
  /\ []((room.game_status = "round_over" /\ room.logs = "host_left")
         => ~(room.players[room.turn_index].is_bot
              /\ ~room.players[room.turn_index].finished))

\* the room with the hands of the seats in hidden blanked: what two rooms
\* must share to agree on a viewer's own hand and on everything public
C13_Visible(rm, hidden) ==
  [rm EXCEPT !.players = [p \in Seats |->
     IF p \in hidden THEN [rm.players[p] EXCEPT !.hand = <<>>] ELSE rm.players[p]]]

\* C13: the projection of a dealt room for viewer v does not tell which
\* cards the other seats hold: two deals of start_game that give v the same
\* hand and agree on everything public (status, turn, tallies, hand sizes)
\* and differ only in which cards seats s and t hold have the same
\* projection for v.
C13_ProjectionHidesOtherHands ==
  \A d \in 0 .. MaxDeal, v \in Seats :
    \A s, t \in Seats \ {v} :
      LET one == start_game(room, Shuffle(d))
          other == start_game(room, SwapBlocks(Shuffle(d), s, t))
      IN (C13_Visible(one, {s, t}) = C13_Visible(other, {s, t}))
           => serialize(one, v) = serialize(other, v)

\* viewers of C14: none and a seat of each team
C14_Viewers == {NoViewer, 0, 3}

\* C14 (state part): for every viewer (a seat, none, or an id that is no
\* seat) the projection has the room's fields; the hand of every seat has
\* the same cards in the same order, as full card records for the viewer's
\* seat and as records with the id alone for every other seat; the cards of
\* the active trick and of the hand history are full records.
C14_ProjectionShape ==
  \A v \in C14_Viewers :
    LET data == serialize(room, v)
    IN /\ DOMAIN data = DOMAIN room
       /\ \A f \in DOMAIN room \ {"players", "last_hand", "hand_history"} : data[f] = room[f]
       /\ data.last_hand =
            (IF room.last_hand = NoHand THEN NoHand ELSE FullHand(room.last_hand))
       /\ Len(data.hand_history) = Len(room.hand_history)
       /\ \A i \in 1 .. Len(room.hand_history) :
            data.hand_history[i] = FullHand(room.hand_history[i])
       /\ \A p \in Seats :
            LET mine == room.players[p]
                seen == data.players[p]
            IN /\ \A f \in DOMAIN mine \ {"hand"} : seen[f] = mine[f]
               /\ Len(seen.hand) = Len(mine.hand)
               /\ \A i \in 1 .. Len(mine.hand) :
                    /\ seen.hand[i].id = mine.hand[i]
                    /\ IF p = v
                         THEN seen.hand[i] = CardRecord(mine.hand[i])
                         ELSE DOMAIN seen.hand[i] = {"id"}

\* C14: serialize(room, v) is the room with the hands of the seats other
\* than v reduced to card ids, and reading the state leaves the room as it
\* is.
C14_SerializeProjection ==
  /\ []C14_ProjectionShape
  /\ [][(ret'.op = "serialize") => (room' = room)]_vars

\* seat 0 has read the state of a round in which a trick is active and
\* hands have different sizes
C14_Witness ==
  /\ ret.op = "serialize"
  /\ ret.viewer = 0
  /\ room.game_status = "playing"
  /\ room.last_hand # NoHand
  /\ \E p, q \in Seats : Len(Hand(p)) # Len(Hand(q))
  /\ Len(Hand(0)) > 0

\* the cards of a list in ascending order of id
C15_ById(cards) ==
  LET ids == Range(cards)
  IN [i \in 1 .. Cardinality(ids) |->
        CHOOSE c \in ids : Cardinality({x \in ids : x < c}) = i - 1]

\* C15: analyze of no card is invalid; of one card a single of its value;
\* of more cards invalid when the non-wildcards differ in value or the
\* count is not 2, 3 or 4, else pair, triple or quad by count with the
\* shared non-wildcard value as rank, or the minimum value when all cards
\* are wildcards; the result is the same for every order of the cards.
C15_AnalyzeResult ==
  (ret.op = "analyze") =>
    LET cards == ret.cards
        r == ret.result
        n == Len(cards)
        normalValues == {Value(c) : c \in {x \in Range(cards) : ~IsWild(x)}}
    IN /\ n = 0 => r.type = "invalid"
       /\ n = 1 => r = [type |-> "single", rank |-> Value(cards[1])]
       /\ n >= 2 =>
            IF Cardinality(normalValues) > 1 \/ n \notin {2, 3, 4}
              THEN r.type = "invalid"
              ELSE /\ r.type = (CASE n = 2 -> "pair" [] n = 3 -> "triple" [] n = 4 -> "quad")
                   /\ r.rank = IF normalValues = {}
                                 THEN SetMin({Value(c) : c \in Range(cards)})
                                 ELSE CHOOSE v \in normalValues : TRUE
       /\ r = analyze(C15_ById(cards))

\* SJ and a 2 have been analyzed, in this order: a pair of rank 11
C15_Witness ==
  /\ ret.op = "analyze"
  /\ ret.cards = <<52, 11>>
  /\ ret.result = [type |-> "pair", rank |-> 11]

\* C16: generate_legal_moves(hand, last) returns exactly the subsets of the
\* hand of a candidate size (1..4 with no trick, the trick's size
\* otherwise) that can_beat accepts, each once, as cards in hand order;
\* with no trick every non-invalid combo of the hand is returned.
C16_LegalMovesExact ==
  (ret.op = "generate_legal_moves") =>
    LET hand == ret.hand
        last == ret.last
        moves == ret.result
        sizes == IF last = NoHand THEN 1 .. 4 ELSE {Len(last.cards)}
        expected == {S \in SUBSET Range(hand) :
                       Cardinality(S) \in sizes /\ can_beat(Selected(hand, S), last)}
    IN /\ {Range(moves[i]) : i \in 1 .. Len(moves)} = expected
       /\ Len(moves) = Cardinality(expected)
       /\ \A i \in 1 .. Len(moves) :
            /\ moves[i] = Selected(hand, Range(moves[i]))
            /\ can_beat(moves[i], last)
       /\ last = NoHand =>
            \A S \in SUBSET Range(hand) :
              analyze(Selected(hand, S)).type # "invalid"
                => \E i \in 1 .. Len(moves) : Range(moves[i]) = S

\* the moves of the full hand over a pair of 5s include a pair made with a
\* wildcard and exclude the pair of 4s
C16_Witness ==
  /\ ret.op = "generate_legal_moves"
  /\ ret.hand = MoveHandCards
  /\ ret.last = PlayedHand(0, <<14, 27>>)
  /\ \E i \in 1 .. Len(ret.result) : Range(ret.result[i]) = {52, 53}
  /\ \A i \in 1 .. Len(ret.result) : Range(ret.result[i]) # {0, 13}

\* the room after the host's leave has force-ended the round: only the
\* status, the log and the spectator names differ
C17_ForceEnded(rm) ==
  LET name == rm.players[rm.host_id].name
  IN [rm EXCEPT !.game_status = "round_over",
                !.logs = "host_left",
                !.spectator_names = IF name \in Range(@) THEN @ ELSE Append(@, name)]

\* C17 (state part): in a playing room whose host seat is human-held,
\* leave_room for the host succeeds, asks for no agent move and returns
\* the room force-ended: status round_over, no result computed, and hands,
\* winners, finished flags, turn, trick, tallies, host_id and the bot flags
\* as before.
C17_HostLeaveEndsRound ==
  (room.game_status = "playing" /\ room.host_id \in Humans(room)) =>
    LET l == leave_room(room, room.host_id)
    IN /\ l.ok
       /\ ~l.trigger
       /\ l.room = C17_ForceEnded(room)
       /\ l.room.players = room.players
       /\ l.room.host_id = room.host_id

\* C17: when the human host leaves while the status is playing, the round
\* is force-ended at once: the step changes nothing but the status, the
\* log and the spectator names, and no agent move is made.
C17_HostLeaveFrame ==
  /\ []C17_HostLeaveEndsRound
  /\ [][(ret'.op = "leave_room" /\ room.game_status = "playing"
         /\ room'.logs = "host_left")
        => /\ room.host_id \in Humans(room)
           /\ room' = C17_ForceEnded(room)
           /\ submitted' = NoSubmit
           /\ pc' = "idle"
           /\ discarded' = discarded]_vars

\* the host has left a round in which cards had been played and seats
\* still held cards
C17_Witness ==
  /\ ret.op = "leave_room"
  /\ room.game_status = "round_over"
  /\ room.logs = "host_left"
  /\ Len(room.hand_history) > 0
  /\ ~room.players[room.host_id].is_bot
  /\ \A team \in {"A", "B"} : TeamFinished(room, team) < 3

\* C18: when the human host leaves while the status is not playing and
\* another seat is human-held, the host's seat becomes bot-controlled and
\* host_id then names a human-held seat: the first human-held seat that
\* follows the leaver's seat in circular seat order.
C18_NextHuman(rm, seat) ==
  LET others == Humans(rm) \ {seat}
      ahead(q) == (q - seat) % NumSeats
  IN CHOOSE q \in others : \A o \in others : ahead(q) <= ahead(o)

C18_HostToNextHuman ==
  [][\A p \in Seats :
       (/\ ret'.op = "leave_room"
        /\ room.game_status # "playing"
        /\ room.host_id = p
        /\ ~room.players[p].is_bot
        /\ room' = leave_room(room, p).room
        /\ Humans(room) \ {p} # {})
       => /\ room'.players[p].is_bot
          /\ room'.host_id \in Humans(room')
          /\ room'.host_id = C18_NextHuman(room, p)]_vars

\* C19: swap_seat is accepted iff the status is waiting, both seat indices
\* are in 0..5, the requesting seat is human-held and the target seat is
\* bot-held; an accepted swap exchanges the occupants of the two seats and
\* host_id follows the host, a rejected one changes nothing.  In every state
\* reached, seat i holds a player whose id is i and whose team is A for i
\* in {0, 2, 4} and B otherwise.
C19_Occupant(pl) ==
  [name |-> pl.name, is_bot |-> pl.is_bot, hand |-> pl.hand,
   ready |-> pl.ready, finished |-> pl.finished]

C19_SeatsKeepIdAndTeam(rm) ==
  \A i \in 0 .. 5 :
    /\ rm.players[i].id = i
    /\ rm.players[i].team = IF i \in {0, 2, 4} THEN "A" ELSE "B"

C19_SwapSeat ==
  /\ C19_SeatsKeepIdAndTeam(room)
  /\ \A p, t \in -1 .. 6 :
       LET r == swap_seat(room, p, t)
           allowed == /\ room.game_status = "waiting"
                      /\ p \in 0 .. 5
                      /\ t \in 0 .. 5
                      /\ ~room.players[p].is_bot
                      /\ room.players[t].is_bot
       IN /\ r.ok <=> allowed
          /\ ~r.ok => r.room = room
          /\ r.ok =>
               /\ C19_Occupant(r.room.players[p]) = C19_Occupant(room.players[t])
               /\ C19_Occupant(r.room.players[t]) = C19_Occupant(room.players[p])
               /\ \A q \in Seats \ {p, t} : r.room.players[q] = room.players[q]
               /\ r.room.host_id = IF room.host_id = p THEN t ELSE room.host_id
               /\ C19_SeatsKeepIdAndTeam(r.room)
               /\ [r.room EXCEPT !.players = room.players, !.host_id = room.host_id,
                                 !.logs = room.logs] = room

\* the host has moved from seat 0 to seat 1, seat 0 now holds the bot, and
\* a further human is seated
C19_Witness ==
  /\ ret = Ret("swap_seat", TRUE, "ok")
  /\ room.host_id = 1
  /\ room.players[1].name = CreatorName
  /\ ~room.players[1].is_bot
  /\ room.players[0].is_bot
  /\ \E q \in Seats \ {0, 1} : ~room.players[q].is_bot

\* C20: join_room seats a newcomer only when the status is waiting and the
\* name is not in the spectator list: the lowest-index bot seat becomes a
\* human seat with that name and is returned, or none is returned and no
\* seat changes when no bot seat remains.  When the status is not waiting or
\* the name is in the spectator list, the result is spectator-only and no
\* seat's occupant, bot flag, hand or the turn changes.
C20_Names == {"a", "b", "c"}

C20_JoinRoom ==
  \A name \in C20_Names :
    LET j == join_room(room, name)
        seating == room.game_status = "waiting" /\ name \notin Range(room.spectator_names)
        bots == {q \in Seats : room.players[q].is_bot}
    IN /\ (seating /\ bots # {}) =>
            /\ ~j.spectator
            /\ j.pid \in bots
            /\ \A q \in bots : j.pid <= q
            /\ j.room.players[j.pid].name = name
            /\ ~j.room.players[j.pid].is_bot
            /\ j.room.players[j.pid].hand = room.players[j.pid].hand
            /\ \A q \in Seats \ {j.pid} : j.room.players[q] = room.players[q]
            /\ j.room.turn_index = room.turn_index
       /\ (seating /\ bots = {}) =>
            /\ ~j.spectator
            /\ j.pid = -1
            /\ j.room.players = room.players
       /\ ~seating =>
            /\ j.spectator
            /\ j.room.players = room.players
            /\ j.room.turn_index = room.turn_index

C20_JoinSteps ==
  [][ret'.op = "join_room" =>
       \/ /\ ret'.msg = "spectator"
          /\ room'.players = room.players
          /\ room'.turn_index = room.turn_index
          /\ \/ room.game_status # "waiting"
             \/ JoinNames \cap Range(room.spectator_names) # {}
       \/ /\ ret'.msg = "player"
          /\ ret'.pid = -1
          /\ room' = room
          /\ Humans(room) = Seats
       \/ /\ ret'.msg = "player"
          /\ ret'.pid \in Seats
          /\ room.game_status = "waiting"
          /\ room.players[ret'.pid].is_bot
          /\ ~room'.players[ret'.pid].is_bot
          /\ \A q \in Seats : q < ret'.pid => ~room.players[q].is_bot]_vars

C20_JoinRoomSeatsOrSpectates == []C20_JoinRoom /\ C20_JoinSteps

\* a newcomer was refused on a full waiting room after an earlier newcomer
\* had been seated at the last bot seat
C20_Witness ==
  /\ ret.op = "join_room"
  /\ ret.pid = -1
  /\ room.game_status = "waiting"
  /\ Humans(room) = Seats

\* C21: while the status is playing, hand sizes only decrease: no step
\* taken from a state with status playing leaves some seat with a larger
\* hand than before.
C21_HandsOnlyDecrease ==
  [][room.game_status = "playing" =>
       \A p \in Seats : Len(room'.players[p].hand) <= Len(room.players[p].hand)]_vars

\* C22: every round makes progress to its end.  The accepted actions of a
\* round are bounded: each one strictly decreases LoopMeasure (the cards in
\* hands, then the passes the active trick can still take), which is never
\* negative.  While the round is playing the turn holder always has an
\* action that is accepted (a pass on an active trick, its lowest card on a
\* lead), so a round whose turn holder keeps acting reaches round_over; and
\* a start_game call on a room of six bots returns with the round over.
C22_Table(rm) ==
  <<[p \in Seats |-> rm.players[p].hand], rm.last_hand, rm.pass_count, rm.turn_index>>

\* a step of the round in which an action was accepted: the hands, the
\* trick, the pass counter or the turn changed, and it is not a new deal
C22_ActionStep ==
  /\ room.game_status = "playing"
  /\ ~DealStep
  /\ C22_Table(room') # C22_Table(room)

C22_TurnHolderCanAct ==
  room.game_status = "playing" =>
    LET seat == room.turn_index
        hand == room.players[seat].hand
    IN /\ ~room.players[seat].finished
       /\ Len(hand) > 0
       /\ IF room.last_hand # NoHand
            THEN apply_action(room, seat, "pass", {}).ok
            ELSE /\ apply_action(room, seat, "play", {hand[Len(hand)]}).ok
                 /\ ~apply_action(room, seat, "pass", {}).ok

C22_RoundsEnd ==
  /\ []C22_TurnHolderCanAct
  /\ [](LoopMeasure(room) >= 0)
  /\ [][C22_ActionStep => LoopMeasure(room') < LoopMeasure(room)]_vars
  /\ [][(pc = "start_game" /\ pc' = "idle" /\ Humans(room) = {})
        => room.game_status = "round_over"]_vars

\* a start_game call on a room of six bots has returned: the round is over,
\* every seat has played and the winners hold no cards
C22_Witness ==
  /\ pc = "idle"
  /\ ret.op = "start_game"
  /\ Humans(room) = {}
  /\ room.game_status = "round_over"
  /\ Len(room.winners) >= 3
  /\ \A p \in Seats : room.player_turn_history[p].plays > 0
  /\ \A i \in 1 .. Len(room.winners) : room.players[room.winners[i]].hand = <<>>

\* C23: teammate deference.  When the active trick is owned by another seat
\* of the responding seat's team and all its cards are of the ranks BJ, SJ,
\* 3, 2, A, and the owner holds at most 2 cards or every unfinished opponent
\* holds more than 1 card, the agent returns no move and the seat passes,
\* also when it holds a move that beats the trick.
C23_Team(i) == IF i \in {0, 2, 4} THEN "A" ELSE "B"

C23_MustDefer(rm, seat) ==
  /\ rm.game_status = "playing"
  /\ rm.last_hand # NoHand
  /\ LET owner == rm.last_hand.player_id
         cards == rm.last_hand.cards
     IN /\ owner # seat
        /\ C23_Team(owner) = C23_Team(seat)
        /\ \A i \in 1 .. Len(cards) : RankOf(cards[i]) \in {"BJ", "SJ", "3", "2", "A"}
        /\ \/ Len(rm.players[owner].hand) <= 2
           \/ \A o \in Seats :
                (C23_Team(o) # C23_Team(seat) /\ ~rm.players[o].finished)
                   => Len(rm.players[o].hand) > 1

C23_AgentDefers ==
  \A seat \in Seats : C23_MustDefer(room, seat) => select_best_move(room, seat) = {<<>>}

C23_TeammateDeference ==
  /\ []C23_AgentDefers
  /\ [][(pc # "idle" /\ BotToMove(room) /\ room' # room
           /\ C23_MustDefer(room, room.turn_index))
        => /\ submitted'.seat = room.turn_index
           /\ submitted'.action = "pass"
           /\ submitted'.ok
           /\ \A p \in Seats : room'.players[p].hand = room.players[p].hand
           /\ room'.pass_count = room.pass_count + 1 \/ room'.last_hand = NoHand]_vars

\* a bot has just passed on its teammate's trick of trump ranks although its
\* hand holds a move that beats the trick
C23_Witness ==
  /\ submitted.action = "pass"
  /\ submitted.ok
  /\ room.game_status = "playing"
  /\ room.last_hand # NoHand
  /\ room.players[submitted.seat].is_bot
  /\ C23_MustDefer(room, submitted.seat)
  /\ Len(generate_legal_moves(room.players[submitted.seat].hand, room.last_hand)) > 0

\* C24: no seat has to respond to its own trick.  In every state with
\* status playing and an active trick the trick's owner does not hold the
\* turn and the pass counter is below the number of unfinished seats;
\* whenever no trick is active the pass counter is 0.
C24_NoOwnTrick ==
  /\ (room.game_status = "playing" /\ room.last_hand # NoHand) =>
        /\ room.last_hand.player_id # room.turn_index
        /\ room.pass_count < Cardinality({p \in Seats : ~room.players[p].finished})
  /\ room.last_hand = NoHand => room.pass_count = 0

C24_NoSeatAnswersItself == []C24_NoOwnTrick

\* the trick's owner has finished and two other seats have passed on it
C24_Witness ==
  /\ room.game_status = "playing"
  /\ room.last_hand # NoHand
  /\ room.players[room.last_hand.player_id].finished
  /\ room.pass_count >= 2

\* C25: when a seat empties its hand with a play and every unfinished seat
\* then passes on that trick, the trick is cleared and the lead goes to the
\* first unfinished seat after the finished owner in circular seat order,
\* which is the seat that passed first, whatever its team.
C25_NextUnfinished(rm, seat) ==
  LET ahead(q) == (q - seat) % NumSeats
  IN CHOOSE q \in Unfinished(rm) : \A o \in Unfinished(rm) : ahead(q) <= ahead(o)

\* the step is a play that empties the hand of its seat, the round going on
C25_FinishingPlay ==
  /\ room.game_status = "playing"
  /\ room'.game_status = "playing"
  /\ ~DealStep
  /\ room'.last_hand # NoHand
  /\ room'.last_hand # room.last_hand
  /\ room'.players[room'.last_hand.player_id].finished

\* the step passes on the trick of a finished owner
C25_PassOnFinished ==
  /\ room.game_status = "playing"
  /\ ~DealStep
  /\ room.last_hand # NoHand
  /\ room.players[room.last_hand.player_id].finished
  /\ \A p \in Seats : room'.players[p].hand = room.players[p].hand
  /\ room'.pass_count # room.pass_count \/ room'.last_hand = NoHand

C25_LeadAfterFinishedOwner ==
  /\ [][C25_FinishingPlay =>
          room'.turn_index = C25_NextUnfinished(room', room'.last_hand.player_id)]_vars
  /\ [][C25_PassOnFinished =>
          LET owner == room.last_hand.player_id
              alive == Cardinality(Unfinished(room))
          IN IF room.pass_count + 1 < alive
               THEN /\ room'.last_hand = room.last_hand
                    /\ room'.pass_count = room.pass_count + 1
               ELSE /\ room'.last_hand = NoHand
                    /\ room'.pass_count = 0
                    /\ room'.game_status = "playing"
                    /\ room'.turn_index = C25_NextUnfinished(room, owner)]_vars
  /\ []((room.game_status = "playing" /\ room.last_hand # NoHand
          /\ room.players[room.last_hand.player_id].finished /\ room.pass_count = 0)
         => room.turn_index = C25_NextUnfinished(room, room.last_hand.player_id))

\* the trick of a finished owner was passed out and cleared: the lead is
\* with the next unfinished seat, an opponent of the owner, while a teammate
\* of the owner is still in the round
C25_Witness ==
  /\ room.game_status = "playing"
  /\ room.last_hand = NoHand
  /\ Len(room.hand_history) > 0
  /\ LET owner == room.hand_history[Len(room.hand_history)].player_id
     IN /\ room.players[owner].finished
        /\ room.turn_index = C25_NextUnfinished(room, owner)
        /\ room.players[room.turn_index].team # room.players[owner].team
        /\ \E m \in Unfinished(room) : room.players[m].team = room.players[owner].team

\* C26: after any sequence of create_room, join_room, leave_room,
\* swap_seat, start_game and apply_action, host_id names a human-held seat
\* whenever at least one seat is human-held.
C26_HostIsHuman ==
  Humans(room) # {} => ~room.players[room.host_id].is_bot
====
